---- MODULE Spec2Model ----
(***************************************************************************)
(* A model of the Convolution layer of syft.core.tensor.nn.layers          *)
(* (convolution.py).  One layer instance is the state; connect_to,         *)
(* forward, backward and the params setter are the actions, each a whole   *)
(* call.  Tensors are records [shape, child] whose child is the row-major  *)
(* flat sequence of the values; every array operation is computed index by *)
(* index, so that shapes and values are both results of the computation.   *)
(*                                                                         *)
(* Two further components have a specification of their own: the multipart *)
(* upload of the SeaweedFS blob storage (seaweedfs.py, SpecBlob) and the   *)
(* protobuf wrapper of the BPTT iterator (bptt_iterator.py, SpecBptt).     *)
(* Each specification moves the variables of its component and leaves the  *)
(* others at rest.                                                         *)
(***************************************************************************)
EXTENDS Integers, Sequences, FiniteSets, TLC

(* ------------------------------ bounds --------------------------------- *)
MaxBatch == 2
MaxChannels == 2
MaxDim == 3
MaxFilters == 2
MaxKernel == 2
MaxStride == 2
MaxPadding == 1
\* The longest sequence of calls on a layer, and the length explored for the
\* configurations outside DeepConfig.
MaxCalls == 4
ShallowCalls == 2

VARIABLES
  nb_filter, filter_size, input_shape, stride, padding, activation,
  W, b, dW, db, out_shape, last_output, last_input, X_col, ds_cached,
  call, resolved, fresh, calls_left, pre_grads_reshaped, stale_X_col,
  file_size, data, api, urls, bytes_pos, part_no, etags, puts, completions,
  returned, blob_pc,
  bptt_iterator, bptt_iterator_pb, restored

cfg == <<nb_filter, filter_size, input_shape, stride, padding, activation>>
layer_vars == <<nb_filter, filter_size, input_shape, stride, padding, activation,
                W, b, dW, db, out_shape, last_output, last_input, X_col, ds_cached,
                call, resolved, fresh, calls_left, pre_grads_reshaped, stale_X_col>>
blob_vars == <<file_size, data, api, urls, bytes_pos, part_no, etags, puts,
               completions, returned, blob_pc>>
bptt_vars == <<bptt_iterator, bptt_iterator_pb, restored>>
vars == <<layer_vars, blob_vars, bptt_vars>>

(* ------------------------- values and tensors -------------------------- *)
\* Python's None, and the value that stands for "the expression raised".
None == [kind |-> "None"]
Raised == [kind |-> "raise"]

IsTensor(t) == "shape" \in DOMAIN t

\* The components at rest: no layer constructed, no blob entry, no iterator.
NoLayer ==
  /\ nb_filter = 0 /\ filter_size = None /\ input_shape = None
  /\ stride = 0 /\ padding = 0 /\ activation = None
  /\ W = None /\ b = None /\ dW = None /\ db = None
  /\ out_shape = None /\ last_output = None /\ last_input = None
  /\ X_col = None /\ ds_cached = None /\ call = None /\ resolved = None
  /\ fresh = FALSE /\ calls_left = 0
  /\ pre_grads_reshaped = None /\ stale_X_col = None

NoBlob ==
  /\ file_size = 0 /\ data = 0 /\ api = None /\ urls = None
  /\ bytes_pos = 0 /\ part_no = 0 /\ etags = <<>> /\ puts = <<>>
  /\ completions = <<>> /\ returned = None /\ blob_pc = "none"

NoIterator ==
  bptt_iterator = None /\ bptt_iterator_pb = None /\ restored = None

RECURSIVE Prod(_)
Prod(s) == IF s = <<>> THEN 1 ELSE Head(s) * Prod(Tail(s))

Numel(t) == Len(t.child)

\* The elements of a tensor of shape shp are numbered 0..Prod(shp)-1 in
\* row-major order; element k is child[k + 1].
Flat(shp) == 0..(Prod(shp) - 1)

Tensor(shp, el) == [shape |-> shp, child |-> [k \in 1..Prod(shp) |-> el[k - 1]]]

\* Row-major element of a 2-D and of a 4-D tensor, indices from 0.
At2(t, i, j) == t.child[i * t.shape[2] + j + 1]
At4(t, n, c, y, x) ==
  t.child[((n * t.shape[2] + c) * t.shape[3] + y) * t.shape[4] + x + 1]

\* The index along each axis of the k-th element (from 0) of a 4-D shape.
Unravel4(k, s) ==
  << k \div (s[2] * s[3] * s[4]),
     (k \div (s[3] * s[4])) % s[2],
     (k \div s[4]) % s[3],
     k % s[4] >>

\* ndarray.reshape(shape): same flat data, new shape; the sizes must agree.
reshape(t, shp) ==
  IF ~IsTensor(t) \/ Prod(shp) # Numel(t) THEN Raised
  ELSE [shape |-> shp, child |-> t.child]

\* ndarray.reshape((n, -1)): the second axis is inferred.
reshape_rows(t, n) ==
  IF ~IsTensor(t) THEN Raised
  ELSE IF n <= 0 \/ Numel(t) % n # 0 THEN Raised
  ELSE [shape |-> <<n, Numel(t) \div n>>, child |-> t.child]

\* .T of a 2-D tensor.
transpose2(t) ==
  IF ~IsTensor(t) \/ Len(t.shape) # 2 THEN Raised
  ELSE LET r == t.shape[1]
           c == t.shape[2]
       IN Tensor(<<c, r>>, [k \in Flat(<<c, r>>) |-> At2(t, k % r, k \div r)])

\* .transpose(perm) of a 4-D tensor; perm lists the source axes from 1.
transpose4(t, perm) ==
  IF ~IsTensor(t) \/ Len(t.shape) # 4 THEN Raised
  ELSE LET ns == [a \in 1..4 |-> t.shape[perm[a]]]
           inv == [a \in 1..4 |-> CHOOSE i \in 1..4 : perm[i] = a]
           old(k) == LET ni == Unravel4(k, ns)
                     IN At4(t, ni[inv[1]], ni[inv[2]], ni[inv[3]], ni[inv[4]])
       IN Tensor(ns, [k \in Flat(ns) |-> old(k)])

RECURSIVE Dot(_, _, _, _, _)
Dot(x, i, y, j, k) ==
  IF k = 0 THEN 0
  ELSE At2(x, i, k - 1) * At2(y, k - 1, j) + Dot(x, i, y, j, k - 1)

\* x @ y for 2-D operands; the contracted axes must agree.
matmul(x, y) ==
  IF ~IsTensor(x) \/ ~IsTensor(y) THEN Raised
  ELSE IF Len(x.shape) # 2 \/ Len(y.shape) # 2 THEN Raised
  ELSE IF x.shape[2] # y.shape[1] THEN Raised
  ELSE LET n == y.shape[2]
       IN Tensor(<<x.shape[1], n>>,
                 [k \in Flat(<<x.shape[1], n>>) |->
                    Dot(x, k \div n, y, k % n, x.shape[2])])

\* m + v for a 2-D m and a 1-D v, broadcast along the last axis.
add_bias(m, v) ==
  IF ~IsTensor(m) \/ ~IsTensor(v) THEN Raised
  ELSE IF Len(v.shape) # 1 \/ v.shape[1] # m.shape[2] THEN Raised
  ELSE Tensor(m.shape, [k \in Flat(m.shape) |->
                         m.child[k + 1] + v.child[(k % m.shape[2]) + 1]])

\* Element-wise product of two tensors of one shape.
multiply(x, y) ==
  IF ~IsTensor(x) \/ ~IsTensor(y) THEN Raised
  ELSE IF x.shape # y.shape THEN Raised
  ELSE Tensor(x.shape, [k \in Flat(x.shape) |-> x.child[k + 1] * y.child[k + 1]])

RECURSIVE SumAxes023(_, _, _)
SumAxes023(t, f, k) ==
  IF k = 0 THEN 0
  ELSE LET hw == t.shape[3] * t.shape[4]
           q == k - 1
       IN At4(t, q \div hw, f, (q % hw) \div t.shape[4], q % t.shape[4])
          + SumAxes023(t, f, k - 1)

\* t.sum(axis=(0, 2, 3)) of a 4-D tensor: one value per index of axis 1.
sum_axes_023(t) ==
  IF ~IsTensor(t) \/ Len(t.shape) # 4 THEN Raised
  ELSE Tensor(<<t.shape[2]>>,
              [f \in Flat(<<t.shape[2]>>) |->
                 SumAxes023(t, f, t.shape[1] * t.shape[3] * t.shape[4])])

AllZero(t) == IsTensor(t) /\ \A k \in 1..Numel(t) : t.child[k] = 0

(* ------------------ patch extraction and patch scatter ----------------- *)
\* (pre + 2*padding - f) // stride + 1 with the given padding and stride.
patch_out_dim(pre, f, pad, st) == (pre + 2 * pad - f) \div st + 1

\* Element (n, c, y, x) of the zero-padded image; y and x are padded indices.
PaddedAt(t, n, c, y, x, pad) ==
  IF y < pad \/ y >= t.shape[3] + pad \/ x < pad \/ x >= t.shape[4] + pad THEN 0
  ELSE At4(t, n, c, y - pad, x - pad)

\* im2col: a (N,C,H,W) tensor becomes the (C*fh*fw, oh*ow*N) patch matrix.  Row
\* (c, di, dj) and column (i, j, n) hold padded element (n, c, i*st+di, j*st+dj).
im2col_indices(t, fh, fw, pad, st) ==
  IF ~IsTensor(t) \/ Len(t.shape) # 4 THEN Raised
  ELSE LET N == t.shape[1]
           oh == patch_out_dim(t.shape[3], fh, pad, st)
           ow == patch_out_dim(t.shape[4], fw, pad, st)
           ncol == oh * ow * N
           el(k) == LET r == k \div ncol
                        q == k % ncol
                        c == r \div (fh * fw)
                        di == (r \div fw) % fh
                        dj == r % fw
                        i == q \div (ow * N)
                        j == (q \div N) % ow
                        n == q % N
                    IN PaddedAt(t, n, c, i * st + di, j * st + dj, pad)
       IN IF oh <= 0 \/ ow <= 0 THEN Raised
          ELSE Tensor(<<t.shape[2] * fh * fw, ncol>>,
                      [k \in Flat(<<t.shape[2] * fh * fw, ncol>>) |-> el(k)])

\* The contributions to padded element (n, c, y, x) of the patch matrix cols
\* (read as (C*fh*fw, oh*ow*N)), over the first k kernel offsets (di, dj).
RECURSIVE Scatter(_, _, _, _, _, _, _, _, _, _, _, _)
Scatter(cols, n, c, y, x, fh, fw, st, oh, ow, N, k) ==
  IF k = 0 THEN 0
  ELSE LET di == (k - 1) \div fw
           dj == (k - 1) % fw
           hit == /\ y >= di /\ (y - di) % st = 0 /\ (y - di) \div st < oh
                  /\ x >= dj /\ (x - dj) % st = 0 /\ (x - dj) \div st < ow
           row == (c * fh + di) * fw + dj
           col == (((y - di) \div st) * ow + (x - dj) \div st) * N + n
       IN (IF hit THEN cols.child[row * (oh * ow * N) + col + 1] ELSE 0)
          + Scatter(cols, n, c, y, x, fh, fw, st, oh, ow, N, k - 1)

\* col2im: the patch matrix is summed back into an image of shape x_shape, the
\* padding is cropped, and the cached provenance is attached to the result.
col2im_indices(cols, x_shape, ds, fh, fw, pad, st) ==
  IF ~IsTensor(cols) \/ x_shape = None THEN Raised
  ELSE IF Len(x_shape) # 4 THEN Raised
  ELSE LET N == x_shape[1]
           oh == patch_out_dim(x_shape[3], fh, pad, st)
           ow == patch_out_dim(x_shape[4], fw, pad, st)
           el(k) == LET ix == Unravel4(k, x_shape)
                    IN Scatter(cols, ix[1], ix[2], ix[3] + pad, ix[4] + pad,
                               fh, fw, st, oh, ow, N, fh * fw)
       IN IF oh <= 0 \/ ow <= 0 THEN Raised
          ELSE IF Numel(cols) # x_shape[2] * fh * fw * oh * ow * N THEN Raised
          ELSE [shape |-> x_shape,
                child |-> [k \in 1..Prod(x_shape) |-> el(k - 1)],
                data_subjects |-> ds]

(* ----------------------------- activations ----------------------------- *)
\* The activation strategy: None, or a rectifier with forward and derivative.
Relu == [kind |-> "relu"]
Activations == {None, Relu}

activation_forward(t) ==
  IF ~IsTensor(t) THEN Raised
  ELSE Tensor(t.shape, [k \in Flat(t.shape) |->
                         IF t.child[k + 1] > 0 THEN t.child[k + 1] ELSE 0])

activation_derivative(t) ==
  IF ~IsTensor(t) THEN Raised
  ELSE Tensor(t.shape, [k \in Flat(t.shape) |-> IF t.child[k + 1] > 0 THEN 1 ELSE 0])

(* --------------------------- inputs of the model ----------------------- *)
\* The value pattern of a tensor: all zero, all one, or a ramp through zero.
Pattern(p, k, n) ==
  IF p = "zeros" THEN 0 ELSE IF p = "ones" THEN 1 ELSE k - (n \div 2)

Filled(shp, p) == Tensor(shp, [k \in Flat(shp) |-> Pattern(p, k, Prod(shp))])

\* A PhiTensor handed in by a caller: values and per-element data subjects.
PhiTensor(shp, p, subject) ==
  [shape |-> shp,
   child |-> [k \in 1..Prod(shp) |-> Pattern(p, k - 1, Prod(shp))],
   data_subjects |-> [k \in 1..Prod(shp) |-> subject]]

Shapes4 ==
  {<<n, c, h, w>> : n \in 1..MaxBatch, c \in 1..MaxChannels,
                    h \in (MaxDim - 1)..MaxDim, w \in {MaxDim}}
Shapes3 == {<<MaxChannels, MaxDim, MaxDim>>}

FilterSizes ==
  {[kind |-> "int", v |-> k] : k \in 1..MaxKernel}
  \cup {[kind |-> "tuple", v |-> <<1, MaxKernel>>]}
  \cup {[kind |-> "list", v |-> <<MaxKernel, MaxKernel>>]}

\* The kernel fits the padded image (H + 2p >= kh and W + 2p >= kw).
Fits(shp, fs, pad) ==
  \/ fs.kind = "list"
  \/ LET fhw == IF fs.kind = "int" THEN <<fs.v, fs.v>> ELSE fs.v
     IN shp[3] + 2 * pad >= fhw[1] /\ shp[4] + 2 * pad >= fhw[2]

(* ------------------------------ the layer ------------------------------ *)
NoCall == [op |-> "__init__", arg |-> None, ok |-> TRUE, value |-> None]

\* The configurations whose call sequences are explored up to MaxCalls calls.
DeepConfig ==
  /\ nb_filter = MaxFilters
  /\ filter_size = [kind |-> "int", v |-> MaxKernel]
  /\ stride = 1
  /\ padding = MaxPadding
  /\ \/ input_shape = None
     \/ input_shape = <<MaxBatch, MaxChannels, MaxDim, MaxDim>>

Init ==
  /\ nb_filter \in 1..MaxFilters
  /\ filter_size \in FilterSizes
  /\ stride \in 1..MaxStride
  /\ padding \in 0..MaxPadding
  /\ activation \in Activations
  /\ \/ input_shape = None
     \/ input_shape \in Shapes3
     \/ input_shape \in {s \in Shapes4 : Fits(s, filter_size, padding)}
  /\ W = None /\ dW = None
  /\ b = None /\ db = None
  /\ out_shape = None
  /\ last_output = None
  /\ last_input = None
  /\ X_col = None
  /\ ds_cached = None
  /\ call = NoCall
  /\ resolved = None
  /\ fresh = FALSE
  /\ pre_grads_reshaped = None
  /\ stale_X_col = None
  /\ calls_left = IF DeepConfig THEN MaxCalls ELSE ShallowCalls
  /\ NoBlob /\ NoIterator

\* XavierInitialization()(shape): some array of that shape.
init(shp) == {Filled(shp, "ones"), Filled(shp, "ramp")}

\* Mutants of connect_input_shape: one falls back to a default shape when the
\* layer has none, the other takes a 3-axis shape as a single sample.
connect_input_shape_default(prev_layer) ==
  LET own == IF input_shape = None THEN <<1, 1, MaxDim, MaxDim>> ELSE input_shape
      shp == IF prev_layer = None THEN own ELSE prev_layer.out_shape
  IN IF shp = None THEN Raised
     ELSE IF Len(shp) # 4 THEN Raised
     ELSE shp

connect_input_shape_sample(prev_layer) ==
  LET shp == IF prev_layer = None THEN input_shape ELSE prev_layer.out_shape
  IN IF shp = None THEN Raised
     ELSE IF Len(shp) = 3 THEN <<1>> \o shp
     ELSE IF Len(shp) # 4 THEN Raised
     ELSE shp

\* connect_to, lines 70-77: the input shape the layer connects to.
connect_input_shape(prev_layer) ==
  LET shp == IF prev_layer = None THEN input_shape ELSE prev_layer.out_shape
  IN IF shp = None THEN Raised
     ELSE IF Len(shp) # 4 THEN Raised
     ELSE shp

\* connect_to, lines 80-85: the filter's height and width.
filter_height_width ==
  IF filter_size.kind = "tuple" THEN filter_size.v
  ELSE IF filter_size.kind = "int" THEN <<filter_size.v, filter_size.v>>
  ELSE Raised

\* Mutant of conv_out_dim: the padding is counted on one side only.
conv_out_dim_one_side(pre, f) == (pre - f + padding) \div stride + 1

\* connect_to, lines 87-88.
conv_out_dim(pre, f) == (pre - f + 2 * padding) \div stride + 1

\* Mutant of connect_to: a bias that is already set survives a reconnect.
connect_to_keep_bias(prev_layer) ==
  LET shp == connect_input_shape(prev_layer)
      fhw == filter_height_width
      failed == shp = Raised \/ fhw = Raised
  IN /\ call' = [op |-> "connect_to", arg |-> prev_layer, ok |-> ~failed,
                 value |-> None]
     /\ IF failed
        THEN UNCHANGED <<out_shape, W, b, resolved>>
        ELSE /\ out_shape' = <<shp[1], nb_filter, conv_out_dim(shp[3], fhw[1]),
                               conv_out_dim(shp[4], fhw[2])>>
             /\ W' \in init(<<nb_filter, shp[2], fhw[1], fhw[2]>>)
             /\ b' = IF b = None THEN Filled(<<nb_filter>>, "zeros") ELSE b
             /\ resolved' = shp
     /\ UNCHANGED <<cfg, dW, db, last_output, last_input, X_col, ds_cached, fresh,
                    pre_grads_reshaped, stale_X_col>>

connect_to(prev_layer) ==
  LET shp == connect_input_shape(prev_layer)
      fhw == filter_height_width
      failed == shp = Raised \/ fhw = Raised
  IN /\ call' = [op |-> "connect_to", arg |-> prev_layer, ok |-> ~failed,
                 value |-> None]
     /\ IF failed
        THEN UNCHANGED <<out_shape, W, b, resolved>>
        ELSE /\ out_shape' = <<shp[1], nb_filter, conv_out_dim(shp[3], fhw[1]),
                               conv_out_dim(shp[4], fhw[2])>>
             /\ W' \in init(<<nb_filter, shp[2], fhw[1], fhw[2]>>)
             /\ b' = Filled(<<nb_filter>>, "zeros")
             /\ resolved' = shp
     /\ UNCHANGED <<cfg, dW, db, last_output, last_input, X_col, ds_cached, fresh,
                    pre_grads_reshaped, stale_X_col>>

\* A predecessor layer is its out_shape: None while it is unconnected.
PrevShapes ==
  Shapes3 \cup {<<1, 1, MaxDim, MaxDim>>, <<MaxBatch, MaxChannels, MaxDim, MaxDim>>}

Connect ==
  \/ connect_to(None)
  \/ connect_to([out_shape |-> None])
  \/ \E s \in PrevShapes : connect_to([out_shape |-> s])

(* forward *)
\* Mutant of forward_out: a failed computation is swallowed and the output of
\* the last forward is returned in its place.
forward_out_swallow(xcol, n_x) ==
  LET n_filters == W.shape[1]
      W_col == reshape_rows(W, n_filters)
      out2 == add_bias(matmul(transpose2(xcol), transpose2(W_col)), b)
      out4 == reshape(out2, <<n_filters, out_shape[3], out_shape[4], n_x>>)
      out == transpose4(out4, <<4, 1, 2, 3>>)
  IN IF out = Raised /\ last_output # None THEN last_output ELSE out

\* forward, lines 123-132: the output computed from the patch matrix.
forward_out(xcol, n_x) ==
  LET n_filters == W.shape[1]
      W_col == reshape_rows(W, n_filters)
      out2 == add_bias(matmul(transpose2(xcol), transpose2(W_col)), b)
      out4 == reshape(out2, <<n_filters, out_shape[3], out_shape[4], n_x>>)
  IN transpose4(out4, <<4, 1, 2, 3>>)

\* forward, lines 101-110: the unpacking of W.shape, input.shape and out_shape.
forward_unpack_fails(input) ==
  \/ W = None
  \/ Len(W.shape) # 4
  \/ Len(input.shape) # 4
  \/ out_shape = None

\* Mutant of forward: the patch matrix and the data subjects are cached by the
\* first forward only.
forward_keep_cache(input) ==
  /\ last_input' = input
  /\ IF forward_unpack_fails(input)
     THEN /\ call' = [op |-> "forward", arg |-> input, ok |-> FALSE, value |-> None]
          /\ UNCHANGED <<ds_cached, X_col, last_output, fresh, stale_X_col>>
     ELSE LET xcol == im2col_indices(input, W.shape[3], W.shape[4], padding, stride)
              out == forward_out(xcol, input.shape[1])
          IN /\ ds_cached' = IF ds_cached # None THEN ds_cached ELSE input.data_subjects
             /\ X_col' = IF xcol = Raised \/ X_col # None THEN X_col ELSE xcol
             /\ stale_X_col' = IF xcol = Raised THEN stale_X_col ELSE X_col
             /\ IF out = Raised
                THEN /\ call' = [op |-> "forward", arg |-> input, ok |-> FALSE,
                                 value |-> None]
                     /\ UNCHANGED <<last_output, fresh>>
                ELSE /\ last_output' = IF activation # None
                                       THEN activation_forward(out) ELSE out
                     /\ call' = [op |-> "forward", arg |-> input, ok |-> TRUE,
                                 value |-> out]
                     /\ fresh' = TRUE
  /\ UNCHANGED <<cfg, W, b, dW, db, out_shape, resolved, pre_grads_reshaped>>

forward(input) ==
  /\ last_input' = input
  /\ IF forward_unpack_fails(input)
     THEN /\ call' = [op |-> "forward", arg |-> input, ok |-> FALSE, value |-> None]
          /\ UNCHANGED <<ds_cached, X_col, last_output, fresh, stale_X_col>>
     ELSE LET xcol == im2col_indices(input, W.shape[3], W.shape[4], padding, stride)
              out == forward_out(xcol, input.shape[1])
          IN /\ ds_cached' = input.data_subjects
             /\ X_col' = IF xcol = Raised THEN X_col ELSE xcol
             /\ stale_X_col' = IF xcol = Raised THEN stale_X_col ELSE X_col
             /\ IF out = Raised
                THEN /\ call' = [op |-> "forward", arg |-> input, ok |-> FALSE,
                                 value |-> None]
                     /\ UNCHANGED <<last_output, fresh>>
                ELSE /\ last_output' = IF activation # None
                                       THEN activation_forward(out) ELSE out
                     /\ call' = [op |-> "forward", arg |-> input, ok |-> TRUE,
                                 value |-> out]
                     /\ fresh' = TRUE
  /\ UNCHANGED <<cfg, W, b, dW, db, out_shape, resolved, pre_grads_reshaped>>

\* The inputs offered to forward: the connected shape, and shapes that differ
\* from it in rank, in the channel count or in the batch size.
BaseShape == IF resolved = None THEN <<1, 1, MaxDim, MaxDim>> ELSE resolved

ForwardInputs ==
  {PhiTensor(BaseShape, p, p) : p \in {"ones", "ramp"}}
  \cup {PhiTensor(Tail(BaseShape), "ramp", "rank3")}
  \cup {PhiTensor(<<BaseShape[1], (BaseShape[2] % MaxChannels) + 1,
                    BaseShape[3], BaseShape[4]>>, "ramp", "channels")}

Forward == \E input \in ForwardInputs : forward(input)

(* backward *)
\* Mutant of backward_pre_grads: the derivative multiply is done whether or not
\* an activation is configured.
backward_pre_grads_always(pre_grad) ==
  multiply(pre_grad, activation_derivative(pre_grad))

\* backward, lines 149-153.
backward_pre_grads(pre_grad) ==
  IF activation # None
  THEN multiply(pre_grad, activation_derivative(pre_grad))
  ELSE pre_grad

\* backward, lines 155-157.
backward_db(pre_grads) == reshape_rows(sum_axes_023(pre_grads), W.shape[1])

\* backward, lines 161-163.
backward_pre_grads_reshaped(pre_grads) ==
  reshape_rows(transpose4(pre_grads, <<2, 3, 4, 1>>), W.shape[1])

\* Mutant of backward_dW: the product is left as the matrix it is.
backward_dW_flat(pgr) ==
  IF X_col = None THEN Raised
  ELSE matmul(pgr, transpose2(X_col))

\* backward, lines 167-168.
backward_dW(pgr) ==
  IF X_col = None THEN Raised
  ELSE LET m == matmul(pgr, transpose2(X_col))
       IN IF m = Raised THEN Raised ELSE reshape(m, W.shape)

\* backward, lines 170-183.
backward_dX(pgr) ==
  LET W_reshape == reshape_rows(W, W.shape[1])
      dX_col == matmul(transpose2(pgr), W_reshape)
  IN col2im_indices(dX_col, input_shape, ds_cached, W.shape[3], W.shape[4],
                    padding, stride)

(* backward, lines 158 and 164: x.min_vals.shape = x.max_vals.shape = x.shape.
   The statement gives both bound arrays of x the shape of x.  A bound array
   is carried by its shape, the one attribute backward reads or writes; its
   elements are the work of PhiTensor.sum, .transpose and .reshape and are not
   part of the state. *)
assign_bound_shapes(x) ==
  [f \in DOMAIN x \cup {"min_vals", "max_vals"} |->
     IF f \in {"min_vals", "max_vals"} THEN [shape |-> x.shape] ELSE x[f]]

\* backward, lines 146-184.
backward(pre_grad) ==
  LET failure == [op |-> "backward", arg |-> pre_grad, ok |-> FALSE, value |-> None]
  IN /\ fresh' = FALSE
     /\ UNCHANGED <<cfg, W, b, out_shape, last_output, last_input, X_col,
                    ds_cached, resolved, stale_X_col>>
     /\ IF W = None
        THEN call' = failure /\ UNCHANGED <<dW, db, pre_grads_reshaped>>
        ELSE LET pre_grads == backward_pre_grads(pre_grad)
                 new_db == backward_db(pre_grads)
                 pgr == backward_pre_grads_reshaped(pre_grads)
                 new_dW == IF pgr = Raised THEN Raised ELSE backward_dW(pgr)
                 dX == IF new_dW = Raised THEN Raised ELSE backward_dX(pgr)
             IN /\ db' = IF new_db = Raised THEN db ELSE assign_bound_shapes(new_db)
                /\ pre_grads_reshaped' =
                     IF new_db = Raised \/ pgr = Raised THEN pre_grads_reshaped
                     ELSE assign_bound_shapes(pgr)
                /\ dW' = IF new_db = Raised \/ new_dW = Raised THEN dW ELSE new_dW
                /\ call' = IF new_db = Raised \/ dX = Raised THEN failure
                           ELSE [op |-> "backward", arg |-> pre_grad, ok |-> TRUE,
                                 value |-> dX]

\* The gradients offered to backward have the layer's output shape.
GradShape == IF out_shape = None THEN <<1, nb_filter, 1, 1>> ELSE out_shape

Backward ==
  \E p \in {"zeros", "ramp"} : backward(PhiTensor(GradShape, p, "grad"))

(* params and grads *)
params == <<W, b>>

grads == <<dW, db>>

\* Mutant of the params setter: any sequence of at least two values is taken.
params_setter_at_least(new_params) ==
  /\ IF Len(new_params) < 2
     THEN /\ call' = [op |-> "params", arg |-> new_params, ok |-> FALSE,
                      value |-> None]
          /\ UNCHANGED <<W, b>>
     ELSE /\ call' = [op |-> "params", arg |-> new_params, ok |-> TRUE,
                      value |-> None]
          /\ W' = new_params[1]
          /\ b' = new_params[2]
  /\ UNCHANGED <<cfg, dW, db, out_shape, last_output, last_input, X_col,
                 ds_cached, resolved, fresh, pre_grads_reshaped, stale_X_col>>

params_setter(new_params) ==
  /\ IF Len(new_params) # 2
     THEN /\ call' = [op |-> "params", arg |-> new_params, ok |-> FALSE,
                      value |-> None]
          /\ UNCHANGED <<W, b>>
     ELSE /\ call' = [op |-> "params", arg |-> new_params, ok |-> TRUE,
                      value |-> None]
          /\ W' = new_params[1]
          /\ b' = new_params[2]
  /\ UNCHANGED <<cfg, dW, db, out_shape, last_output, last_input, X_col,
                 ds_cached, resolved, fresh, pre_grads_reshaped, stale_X_col>>

\* The values an optimizer writes back: weights of the layer's filter count and
\* kernel over MaxChannels channels, and a bias of one value per filter.
NewW ==
  LET fhw == IF filter_height_width = Raised THEN <<1, 1>> ELSE filter_height_width
  IN Filled(<<nb_filter, MaxChannels, fhw[1], fhw[2]>>, "ones")

NewB == Filled(<<nb_filter>>, "ones")

SetParams ==
  \E new_params \in {<<NewW>>, <<NewW, NewB>>, <<NewW, NewB, NewB>>} :
    params_setter(new_params)

Call(op) ==
  /\ calls_left > 0 /\ calls_left' = calls_left - 1 /\ op
  /\ UNCHANGED <<blob_vars, bptt_vars>>

Next == Call(Connect) \/ Call(Forward) \/ Call(Backward) \/ Call(SetParams)

Spec == Init /\ [][Next]_vars

(* ------------------ SeaweedFS blob storage (seaweedfs.py) -------------- *)
(* The data handed to SeaweedFSBlobDeposit.write is modelled by its length *)
(* in bytes and a chunk by its offset and length in the data, so that the  *)
(* chunk size keeps the value it has in the program.  blob_pc is the       *)
(* position of the upload: "allocated" (the entry exists), "deposit" (the  *)
(* connection has built the deposit), "loop" (inside the loop of write)    *)
(* and "returned".                                                         *)
DEFAULT_CHUNK_SIZE == 1048576

\* The largest number of parts of a blob entry.
MaxParts == 3

\* File sizes around every multiple of the chunk size.
FileSizes ==
  {s \in {q * DEFAULT_CHUNK_SIZE + r : q \in 0..MaxParts,
                                        r \in {0, 1, DEFAULT_CHUNK_SIZE - 1}} :
     s <= MaxParts * DEFAULT_CHUNK_SIZE}

\* The data of a write: of the entry's size, one chunk longer, or half of it.
DataSizes(size) == {size, size + DEFAULT_CHUNK_SIZE, size \div 2}

\* The ETag header values of the responses.
ETags == {"a", "b"}

Api == [kind |-> "api"]
SyftError == [kind |-> "SyftError"]
SyftSuccess == [kind |-> "SyftSuccess"]

InitBlob ==
  /\ NoLayer /\ NoIterator
  /\ file_size \in FileSizes
  /\ data \in DataSizes(file_size)
  /\ api \in {None, Api}
  /\ urls = None
  /\ bytes_pos = 0 /\ part_no = 0
  /\ etags = <<>> /\ puts = <<>> /\ completions = <<>>
  /\ returned = None
  /\ blob_pc = "allocated"

\* Mutant of total_parts: the quotient is rounded down and one part is added.
total_parts_floor(size) == size \div DEFAULT_CHUNK_SIZE + 1

\* SeaweedFSConnection.write, line 175: math.ceil(file_size / DEFAULT_CHUNK_SIZE).
total_parts(size) ==
  IF size % DEFAULT_CHUNK_SIZE = 0 THEN size \div DEFAULT_CHUNK_SIZE
  ELSE size \div DEFAULT_CHUNK_SIZE + 1

\* SeaweedFSConnection.write: one presigned URL per part, numbered from 1.
Connection_write ==
  /\ blob_pc = "allocated"
  /\ urls' = [i \in 1..total_parts(file_size) |-> [PartNumber |-> i]]
  /\ blob_pc' = "deposit"
  /\ UNCHANGED <<file_size, data, api, bytes_pos, part_no, etags, puts,
                 completions, returned>>

\* SeaweedFSBlobDeposit.write, lines 63-76: up to the first pass of the loop.
Deposit_write ==
  /\ blob_pc = "deposit"
  /\ etags' = <<>> /\ bytes_pos' = 0 /\ part_no' = 1
  /\ blob_pc' = "loop"
  /\ UNCHANGED <<file_size, data, api, urls, puts, completions, returned>>

\* _byte_chunks: bytes.read(size) gives the next size bytes, fewer at the end
\* of the data and none after it.
byte_chunk ==
  LET left == data - bytes_pos
  IN [off |-> bytes_pos,
      len |-> IF left < DEFAULT_CHUNK_SIZE THEN left ELSE DEFAULT_CHUNK_SIZE]

\* The request of one pass of the loop, lines 77-83.
put_request(outcome) ==
  [url |-> urls[part_no],
   via |-> IF api # None THEN "blob_route" ELSE "url",
   chunk |-> byte_chunk,
   outcome |-> outcome]

\* Mutant of request_failed: the exception is swallowed and the loop goes on
\* with the next part.
request_failed_ignored ==
  /\ part_no' = part_no + 1
  /\ UNCHANGED <<etags, completions, returned, blob_pc>>

\* write, lines 87-88: a RequestException ends write with a SyftError.
request_failed ==
  /\ returned' = SyftError
  /\ blob_pc' = "returned"
  /\ UNCHANGED <<etags, completions, part_no>>

\* One pass of the loop whose PUT succeeds, lines 73-86.
PutSucceeds ==
  /\ blob_pc = "loop" /\ part_no <= Len(urls)
  /\ puts' = Append(puts, put_request("ok"))
  /\ bytes_pos' = bytes_pos + byte_chunk.len
  /\ \E etag \in ETags :
       etags' = Append(etags, [ETag |-> etag, PartNumber |-> part_no])
  /\ part_no' = part_no + 1
  /\ UNCHANGED <<file_size, data, api, urls, completions, returned, blob_pc>>

\* One pass of the loop whose PUT or raise_for_status raises, lines 73-88.
PutFails ==
  /\ blob_pc = "loop" /\ part_no <= Len(urls)
  /\ puts' = Append(puts, put_request("RequestException"))
  /\ bytes_pos' = bytes_pos + byte_chunk.len
  /\ request_failed
  /\ UNCHANGED <<file_size, data, api, urls>>

\* write, lines 90-100: the URLs are used up (zip has read one more chunk),
\* mark_write_complete is called and its response is returned.
Complete ==
  /\ blob_pc = "loop" /\ part_no > Len(urls)
  /\ bytes_pos' = bytes_pos + byte_chunk.len
  /\ completions' = Append(completions,
                           [etags |-> etags,
                            via |-> IF api # None THEN "api" ELSE "node"])
  /\ returned' \in {SyftSuccess, SyftError}
  /\ blob_pc' = "returned"
  /\ UNCHANGED <<file_size, data, api, urls, part_no, etags, puts>>

Blob(op) == op /\ UNCHANGED <<layer_vars, bptt_vars>>

NextBlob ==
  \/ Blob(Connection_write) \/ Blob(Deposit_write)
  \/ Blob(PutSucceeds) \/ Blob(PutFails) \/ Blob(Complete)

SpecBlob == InitBlob /\ [][NextBlob]_vars

(* ------------- BPTT iterator wrapper (bptt_iterator.py) ---------------- *)
(* An object is a record of its attributes; an attribute that an object    *)
(* does not have is a field the record does not have.  A UID is a record   *)
(* [value |-> u] with u the UUID as a number, and its bytes are the        *)
(* big-endian digits of u to the base 256.                                 *)

\* The number of bytes of a UUID of the model, and the largest batch size and
\* sequence length of an iterator.
UuidBytes == 2
MaxBatchSize == 2
MaxBpttLen == 2

RECURSIVE Pow(_, _)
Pow(x, n) == IF n = 0 THEN 1 ELSE x * Pow(x, n - 1)

Uuids == {0, 1, 255, 256, Pow(256, UuidBytes) - 1}
Modes == {"train", "valid"}

UID(u) == [value |-> u]

\* Mutant of uuid_bytes: the bytes are written lowest digit first.
uuid_bytes_little_endian(u) ==
  [i \in 1..UuidBytes |-> (u \div Pow(256, i - 1)) % 256]

\* UUID.bytes: the digits of the number, highest first.
uuid_bytes(u) ==
  [i \in 1..UuidBytes |-> (u \div Pow(256, UuidBytes - i)) % 256]

RECURSIVE BytesValue(_)
BytesValue(bs) ==
  IF bs = <<>> THEN 0
  ELSE BytesValue(SubSeq(bs, 1, Len(bs) - 1)) * 256 + bs[Len(bs)]

\* UUID(bytes = bs): the number with these digits; a wrong length raises.
UUID(bs) == IF Len(bs) # UuidBytes THEN Raised ELSE BytesValue(bs)

HasId(o) == "id" \in DOMAIN o

\* The objects a caller builds: reader and encoder with or without an id.
Tokenizers == {[id |-> UID(u)] : u \in {1, 256}}

SentenceEncoders ==
  {[tokenizer |-> t] : t \in Tokenizers}
  \cup {[tokenizer |-> t, id |-> UID(Pow(256, UuidBytes) - 1)] : t \in Tokenizers}

TextReaders ==
  {[mode |-> m, encoder |-> e] : m \in Modes, e \in SentenceEncoders}
  \cup {[mode |-> m, encoder |-> e, id |-> UID(u)] :
          m \in Modes, e \in SentenceEncoders, u \in {0, 255}}

BPTTIterators ==
  {[id |-> UID(u), batch_size |-> bs, bptt_len |-> len, shuffle |-> sh,
    mode |-> m, dataset_reader |-> r] :
     u \in {255, 256}, bs \in {1, MaxBatchSize}, len \in {1, MaxBpttLen},
     sh \in BOOLEAN, m \in Modes, r \in TextReaders}

InitBptt ==
  /\ NoLayer /\ NoBlob
  /\ bptt_iterator \in BPTTIterators
  /\ bptt_iterator_pb = None
  /\ restored = None

\* spacy_tokenizer2proto(obj, obj_pb): fills the tokenizer part of the message.
spacy_tokenizer2proto(tokenizer) == [uuid |-> uuid_bytes(tokenizer.id.value)]

\* object2proto, lines 25-60.  reader_uid and encoder_uid are the fresh UID()
\* that getattr falls back to for an object without an id.
object2proto(obj, reader_uid, encoder_uid) ==
  LET text_reader == obj.dataset_reader
      sentence_encoder == text_reader.encoder
      reader_id == IF HasId(text_reader) THEN text_reader.id ELSE reader_uid
      encoder_id == IF HasId(sentence_encoder) THEN sentence_encoder.id
                    ELSE encoder_uid
  IN [uuid |-> uuid_bytes(obj.id.value),
      batch_size |-> obj.batch_size,
      bptt_len |-> obj.bptt_len,
      shuffle |-> obj.shuffle,
      mode |-> obj.mode,
      dataset_reader |->
        [uuid |-> uuid_bytes(reader_id.value),
         mode |-> text_reader.mode,
         encoder |->
           [uuid |-> uuid_bytes(encoder_id.value),
            tokenizer |-> spacy_tokenizer2proto(sentence_encoder.tokenizer)]]]

\* proto2spacy_tokenizer(proto): the tokenizer object of the message.
proto2spacy_tokenizer(tokenizer_pb) == [id |-> UID(UUID(tokenizer_pb.uuid))]

\* proto2object, lines 63-117.
proto2object(proto) ==
  LET tokenizer_pb == proto.dataset_reader.encoder.tokenizer
      tokenizer == [proto2spacy_tokenizer(tokenizer_pb)
                      EXCEPT !.id = UID(UUID(tokenizer_pb.uuid))]
      sentence_encoder_pb == proto.dataset_reader.encoder
      sentence_encoder == [tokenizer |-> tokenizer,
                           id |-> UID(UUID(sentence_encoder_pb.uuid))]
      text_reader_pb == proto.dataset_reader
      text_reader == [mode |-> text_reader_pb.mode,
                      encoder |-> sentence_encoder,
                      id |-> UID(UUID(text_reader_pb.uuid))]
  IN [batch_size |-> proto.batch_size,
      bptt_len |-> proto.bptt_len,
      shuffle |-> proto.shuffle,
      mode |-> proto.mode,
      dataset_reader |-> text_reader,
      id |-> UID(UUID(proto.uuid))]

Serialize ==
  /\ bptt_iterator_pb = None
  /\ \E reader_uid, encoder_uid \in {UID(u) : u \in Uuids} :
       bptt_iterator_pb' = object2proto(bptt_iterator, reader_uid, encoder_uid)
  /\ UNCHANGED <<bptt_iterator, restored>>

Deserialize ==
  /\ bptt_iterator_pb # None /\ restored = None
  /\ restored' = proto2object(bptt_iterator_pb)
  /\ UNCHANGED <<bptt_iterator, bptt_iterator_pb>>

Bptt(op) == op /\ UNCHANGED <<layer_vars, blob_vars>>

NextBptt == Bptt(Serialize) \/ Bptt(Deserialize)

SpecBptt == InitBptt /\ [][NextBptt]_vars

(* ------------------------------- claims -------------------------------- *)
\* The kernel (kh, kw) of a layer whose filter_size is an int or a pair.
Kernel == IF filter_size.kind = "int" THEN <<filter_size.v, filter_size.v>>
          ELSE filter_size.v

Returned(op) == call.op = op /\ call.ok

\* C1: for an input shape (N,C,H,W) with H+2p >= kh and W+2p >= kw, connect_to
\* sets out_shape = (N, nb_filter, (H+2p-kh)//s+1, (W+2p-kw)//s+1), and a forward
\* on an input of that shape returns a tensor of exactly that out_shape (it
\* does return one while the weights have the shape connect_to gave them).
C1_ShapeLaw ==
  LET law == <<resolved[1], nb_filter,
               (resolved[3] + 2 * padding - Kernel[1]) \div stride + 1,
               (resolved[4] + 2 * padding - Kernel[2]) \div stride + 1>>
  IN /\ Returned("connect_to") => out_shape = law
     /\ (Returned("forward") /\ call.arg.shape = resolved) =>
          (out_shape = law /\ call.value.shape = out_shape)
     /\ (/\ call.op = "forward" /\ call.arg.shape = resolved
         /\ W.shape = <<nb_filter, resolved[2], Kernel[1], Kernel[2]>>
         /\ b.shape = <<nb_filter>>) => call.ok

C1_Witness ==
  /\ Returned("forward") /\ call.arg.shape = resolved
  /\ stride > 1 /\ padding > 0
  /\ out_shape[3] # out_shape[4] /\ out_shape[4] # resolved[4]

\* C2: a backward call succeeds only if a forward call has completed on the
\* layer since the previous backward call (or since construction).
C2_BackwardNeedsForward ==
  [][(call'.op = "backward" /\ call'.ok) => fresh]_vars

\* C3: after a forward on an input of the shape resolved at connect time,
\* backward(g) with g of the layer's output shape returns a tensor of exactly
\* that input shape, however the layer was connected.
C3_GradientShape ==
  [][(/\ call'.op = "backward"
      /\ Returned("forward") /\ call.arg.shape = resolved
      /\ call'.arg.shape = out_shape)
     => (call'.ok /\ call'.value.shape = resolved)]_vars

\* C4: forward returns the possibly activated output, the tensor it stores as
\* last_output.
C4_ReturnsActivated ==
  Returned("forward") => call.value = last_output

\* The sum of the values of item n of x under the window of output position
\* (i, j), over all channels (the first k of its terms).
RECURSIVE WindowSumTo(_, _, _, _, _)
WindowSumTo(x, n, i, j, k) ==
  IF k = 0 THEN 0
  ELSE LET kh == Kernel[1]
           kw == Kernel[2]
           q == k - 1
       IN At4(x, n, q \div (kh * kw),
              i * stride - padding + ((q \div kw) % kh),
              j * stride - padding + (q % kw))
          + WindowSumTo(x, n, i, j, k - 1)

WindowSum(x, n, i, j) ==
  WindowSumTo(x, n, i, j, x.shape[2] * Kernel[1] * Kernel[2])

\* The window of output position (i, j) lies wholly inside the unpadded input.
Interior(x, i, j) ==
  /\ i * stride - padding >= 0 /\ i * stride - padding + Kernel[1] <= x.shape[3]
  /\ j * stride - padding >= 0 /\ j * stride - padding + Kernel[2] <= x.shape[4]

\* C5: with all weights equal to one constant w and bias 0, the output of
\* forward at every item n, filter f and interior position (i, j) is w times the
\* sum of the input values of item n covered by the window at (i, j).
C5_InteriorValues ==
  (/\ Returned("forward")
   /\ \A k \in 1..Numel(W) : W.child[k] = W.child[1]
   /\ W.shape[3] = Kernel[1] /\ W.shape[4] = Kernel[2]
   /\ AllZero(b))
  => \A n \in 0..(call.value.shape[1] - 1), f \in 0..(call.value.shape[2] - 1),
        i \in 0..(call.value.shape[3] - 1), j \in 0..(call.value.shape[4] - 1) :
       Interior(call.arg, i, j) =>
         At4(call.value, n, f, i, j) = W.child[1] * WindowSum(call.arg, n, i, j)

\* C6: connect_to with no predecessor on a layer constructed without an input
\* shape fails, and leaves out_shape, W and b as they were.
C6_ConnectNeedsShape ==
  [][(call'.op = "connect_to" /\ call'.arg = None /\ input_shape = None)
     => (~call'.ok /\ UNCHANGED <<out_shape, W, b>>)]_vars

C6_Witness ==
  /\ call.op = "connect_to" /\ call.arg = None /\ input_shape = None
  /\ ~call.ok /\ W # None /\ out_shape # None

\* The input shape a connect_to call resolves: the layer's own or the
\* predecessor's out_shape.
Offered(c) == IF c.arg = None THEN input_shape ELSE c.arg.out_shape

\* C7: connect_to succeeds only when the resolved input shape has exactly 4
\* axes; with any other number of axes (the 3-axis shape of the class docstring
\* included) it fails, allocating no weights and setting no out_shape.
C7_FourAxes ==
  [][call'.op = "connect_to" =>
       /\ call'.ok => (Offered(call') # None /\ Len(Offered(call')) = 4)
       /\ (Offered(call') # None /\ Len(Offered(call')) # 4)
            => (~call'.ok /\ UNCHANGED <<out_shape, W, b>>)]_vars

C7_Witness ==
  /\ call.op = "connect_to" /\ call.arg = None /\ ~call.ok
  /\ input_shape # None /\ Len(input_shape) = 3
  /\ W = None /\ out_shape = None

\* C8: forward returns no output for an input whose rank is not 4 or whose
\* channel count differs from the input-channel axis of the weights.
C8_ForwardRejects ==
  Returned("forward") =>
    (Len(call.arg.shape) = 4 /\ call.arg.shape[2] = W.shape[2])

C8_Witness ==
  /\ call.op = "forward" /\ ~call.ok
  /\ W # None /\ out_shape # None
  /\ Len(call.arg.shape) = 4 /\ call.arg.shape[2] # W.shape[2]
  /\ X_col # None /\ X_col.shape[1] # W.shape[2] * W.shape[3] * W.shape[4]

\* C9: setting params with a sequence whose length is not 2 fails and leaves W
\* and b unchanged; with exactly two values, params then returns those two.
C9_ParamsArity ==
  [][call'.op = "params" =>
       IF Len(call'.arg) # 2
       THEN ~call'.ok /\ UNCHANGED <<W, b>>
       ELSE call'.ok /\ params' = <<call'.arg[1], call'.arg[2]>>]_vars

C9_Witness ==
  /\ call.op = "params" /\ ~call.ok /\ Len(call.arg) = 3
  /\ W # None /\ W # call.arg[1]

\* C10: after a forward, backward with an all-zero output gradient returns an
\* all-zero input gradient and leaves all-zero weight and bias gradients.
C10_ZeroGradient ==
  [][(/\ call'.op = "backward" /\ AllZero(call'.arg)
      /\ Returned("forward") /\ call'.arg.shape = call.value.shape)
     => (/\ call'.ok /\ AllZero(call'.value)
         /\ AllZero(grads'[1]) /\ AllZero(grads'[2]))]_vars

\* C11: a repeated connect_to is a reset: whatever forward, backward and params
\* calls came before it, a successful connect_to leaves out_shape, the shape of
\* W and an all-zero bias of shape (nb_filter,) that follow from the
\* configuration and the input shape of this call alone.
C11_ConnectResets ==
  [][(call'.op = "connect_to" /\ call'.ok) =>
       LET shp == Offered(call')
       IN /\ out_shape' = <<shp[1], nb_filter,
                            (shp[3] + 2 * padding - Kernel[1]) \div stride + 1,
                            (shp[4] + 2 * padding - Kernel[2]) \div stride + 1>>
          /\ W'.shape = <<nb_filter, shp[2], Kernel[1], Kernel[2]>>
          /\ b'.shape = <<nb_filter>> /\ AllZero(b')]_vars

\* A reconnect to an input shape of another channel count after a forward and
\* a backward.
C11_Witness ==
  /\ Returned("connect_to")
  /\ X_col # None /\ db # None
  /\ X_col.shape[1] # resolved[2] * Kernel[1] * Kernel[2]
  /\ W.shape[2] = resolved[2] /\ AllZero(b)

\* C12: with an activation configured, backward multiplies the incoming
\* gradient by the activation's derivative evaluated at the pre-activation
\* value of the preceding forward before it computes the gradients: the bias
\* gradient it leaves is the sum of that product over batch and positions.
C12_DerivativeAtPreActivation ==
  [][(/\ call'.op = "backward" /\ activation # None
      /\ Returned("forward") /\ call'.arg.shape = call.value.shape)
     => db'.child =
          sum_axes_023(multiply(call'.arg, activation_derivative(call.value))).child]_vars

\* C13: with no activation configured, forward stores and returns the
\* pre-activation result itself, and backward computes the bias, weight and
\* input gradients from the incoming gradient as it is, with no derivative
\* multiply.
C13_NoActivationIdentity ==
  [][activation = None =>
       /\ (call'.op = "forward" /\ call'.ok) =>
            /\ call'.value = forward_out(X_col', call'.arg.shape[1])
            /\ last_output' = call'.value
       /\ (call'.op = "backward" /\ W # None) =>
            LET g == call'.arg
                g2 == reshape_rows(transpose4(g, <<2, 3, 4, 1>>), W.shape[1])
            IN /\ db'.child = sum_axes_023(g).child
               /\ call'.ok => (dW' = backward_dW(g2) /\ call'.value = backward_dX(g2))]_vars

C13_Witness ==
  /\ activation = None /\ Returned("backward")
  /\ \E k \in 1..Numel(call.arg) : call.arg.child[k] < 0
  /\ \E k \in 1..Numel(last_output) : last_output.child[k] < 0
  /\ ~AllZero(dW) /\ ~AllZero(call.value)

\* C15: whatever forwards came before, a backward that follows a forward
\* computes the weight gradient from the patch matrix of that forward's input
\* and returns an input gradient that carries the data subjects of that same
\* input; nothing cached by an earlier forward is used.
C15_UsesLatestForward ==
  [][(call'.op = "backward" /\ Returned("forward")) =>
       LET patches == im2col_indices(call.arg, W.shape[3], W.shape[4], padding, stride)
       IN /\ dW' = reshape(matmul(pre_grads_reshaped', transpose2(patches)), W.shape)
          /\ call'.ok => call'.value.data_subjects = call.arg.data_subjects]_vars

\* A backward after two forwards that cached different patch matrices.
C15_Witness ==
  /\ Returned("backward")
  /\ stale_X_col # None /\ stale_X_col # X_col
  /\ X_col = im2col_indices(last_input, W.shape[3], W.shape[4], padding, stride)
  /\ ~AllZero(dW) /\ call.value.data_subjects = last_input.data_subjects

\* The sum of the first k entries of row f of a 2-D tensor.
RECURSIVE RowSumTo(_, _, _)
RowSumTo(t, f, k) ==
  IF k = 0 THEN 0 ELSE At2(t, f, k - 1) + RowSumTo(t, f, k - 1)

\* The sum of the first k entries, over batch items and positions, of filter f
\* of a 4-D tensor.
RECURSIVE FilterSumTo(_, _, _)
FilterSumTo(g, f, k) ==
  IF k = 0 THEN 0
  ELSE LET hw == g.shape[3] * g.shape[4]
       IN g.child[((k - 1) \div hw) * g.shape[2] * hw + f * hw + ((k - 1) % hw) + 1]
          + FilterSumTo(g, f, k - 1)

\* C16: after every successful backward, the bias gradient of grads holds one
\* value per filter f, the sum over all batch items and positions of filter f
\* of the gradient that backward formed from the incoming one (the incoming
\* gradient itself when no activation is configured), and the weight gradient
\* of grads has the shape of W.
C16_BiasAndWeightGradients ==
  [][(call'.op = "backward" /\ call'.ok) =>
       LET g == call'.arg
           r == pre_grads_reshaped'
       IN /\ Numel(grads'[2]) = W.shape[1] /\ g.shape[2] = W.shape[1]
          /\ \A f \in 0..(W.shape[1] - 1) :
               /\ grads'[2].child[f + 1] = RowSumTo(r, f, r.shape[2])
               /\ activation = None =>
                    grads'[2].child[f + 1] =
                      FilterSumTo(g, f, g.shape[1] * g.shape[3] * g.shape[4])
          /\ grads'[1].shape = W.shape]_vars

C16_Witness ==
  /\ Returned("backward") /\ activation # None
  /\ call.arg.shape[1] > 1 /\ call.arg.shape[2] > 1
  /\ grads[2].shape = <<nb_filter, 1>> /\ grads[2].child[1] # grads[2].child[2]
  /\ grads[1].shape = W.shape /\ W.shape[2] > 1 /\ W.shape[3] > 1

(* ------------------------- claims on the blob upload ------------------- *)
\* The PUT requests made so far all succeeded.
AllPutsOk == \A i \in 1..Len(puts) : puts[i].outcome = "ok"

\* C17: write calls mark_write_complete at most once and only after the PUT of
\* every part has succeeded; the parts are uploaded in URL order with part
\* numbers 1, 2, ... and the etag list handed to the completion lists them in
\* that order; once a PUT has raised a request error no later part is
\* uploaded, mark_write_complete is never called and write returns a SyftError.
C17_CompleteAfterAllParts ==
  /\ Len(completions) <= 1
  /\ \A i \in 1..Len(puts) :
       /\ puts[i].url = urls[i] /\ puts[i].url.PartNumber = i
       /\ puts[i].outcome # "ok" =>
            /\ i = Len(puts) /\ completions = <<>>
            /\ blob_pc = "returned" /\ returned = SyftError
  /\ completions # <<>> =>
       /\ AllPutsOk /\ Len(puts) = Len(urls)
       /\ Len(completions[1].etags) = Len(puts)
       /\ \A i \in 1..Len(puts) : completions[1].etags[i].PartNumber = i

C17_Witness ==
  /\ blob_pc = "returned" /\ completions # <<>>
  /\ Len(puts) = MaxParts
  /\ completions[1].etags[1].ETag # completions[1].etags[2].ETag

\* The uploaded chunks follow one another in the data from its first byte.
RECURSIVE Contiguous(_)
Contiguous(k) ==
  IF k = 0 THEN TRUE
  ELSE /\ Contiguous(k - 1)
       /\ puts[k].chunk.off = IF k = 1 THEN 0
                              ELSE puts[k - 1].chunk.off + puts[k - 1].chunk.len

\* C18: for an entry of file_size bytes the connection yields
\* k = ceil(file_size / DEFAULT_CHUNK_SIZE) URLs with part numbers 1..k, and a
\* write of data of exactly file_size bytes whose uploads all succeed ends
\* after k uploads whose chunks, in part order, are the data from its first to
\* its last byte, none of them empty.
C18_ChunksCoverData ==
  /\ blob_pc \in {"deposit", "loop", "returned"} =>
       /\ Len(urls) * DEFAULT_CHUNK_SIZE >= file_size
       /\ (Len(urls) - 1) * DEFAULT_CHUNK_SIZE < file_size \/ Len(urls) = 0
       /\ \A i \in 1..Len(urls) : urls[i].PartNumber = i
  /\ (blob_pc = "returned" /\ data = file_size /\ AllPutsOk) =>
       /\ Len(puts) = Len(urls)
       /\ Contiguous(Len(puts))
       /\ \A i \in 1..Len(puts) : puts[i].chunk.len > 0
       /\ IF puts = <<>> THEN data = 0
          ELSE puts[Len(puts)].chunk.off + puts[Len(puts)].chunk.len = data

C18_Witness ==
  /\ blob_pc = "returned" /\ data = file_size /\ AllPutsOk
  /\ file_size = MaxParts * DEFAULT_CHUNK_SIZE /\ Len(puts) = MaxParts

(* --------------------- claims on the iterator wrapper ------------------ *)
\* C19: for an iterator x whose reader, encoder and tokenizer carry ids,
\* proto2object(object2proto(x)) has the id, batch_size, bptt_len, shuffle and
\* mode of x, and its reader, encoder and tokenizer have the ids of those of x
\* (the reader the mode as well).
C19_RoundTrip ==
  LET x == bptt_iterator
      y == restored
  IN (/\ HasId(y)
      /\ HasId(x.dataset_reader) /\ HasId(x.dataset_reader.encoder)
      /\ HasId(x.dataset_reader.encoder.tokenizer)) =>
       /\ y.id = x.id /\ y.batch_size = x.batch_size /\ y.bptt_len = x.bptt_len
       /\ y.shuffle = x.shuffle /\ y.mode = x.mode
       /\ y.dataset_reader.id = x.dataset_reader.id
       /\ y.dataset_reader.mode = x.dataset_reader.mode
       /\ y.dataset_reader.encoder.id = x.dataset_reader.encoder.id
       /\ y.dataset_reader.encoder.tokenizer.id
            = x.dataset_reader.encoder.tokenizer.id

C19_Witness ==
  /\ HasId(restored) /\ HasId(bptt_iterator.dataset_reader)
  /\ HasId(bptt_iterator.dataset_reader.encoder)
  /\ restored.id.value = 256 /\ restored.dataset_reader.id.value = 255
  /\ restored.dataset_reader.encoder.tokenizer.id.value = 1
  /\ restored.mode # restored.dataset_reader.mode
  /\ restored.shuffle /\ restored.batch_size # restored.bptt_len
====
